---- MODULE Spec2Model ----
(***************************************************************************)
(* Model of radio.py: the interactive playback session (interactive_mode), *)
(* its track source (get_track) and player adapter (play_track).           *)
(***************************************************************************)
EXTENDS Integers, Sequences, FiniteSets, TLC

(* ---------------- bounds of the model ---------------- *)
MaxFetch == 3
MaxInput == 1

(* ---------------- values ---------------- *)
NoneV == "None"
NoExit == -1

MOODS == <<"SLOW", "FAST", "WEIRD">>

(* the filter selections a session may be started with *)
Selections ==
  { [country |-> NoneV, decades |-> <<>>, moods |-> NoneV],
    [country |-> "ITA", decades |-> <<1970>>, moods |-> <<"SLOW">>] }

(* ---------------- text helpers (str.lower, str.strip, `in`) ------------- *)
Whitespace == {" ", "\n", "\t"}

UpperLetters ==
  <<"A","B","C","D","E","F","G","H","I","J","K","L","M",
    "N","O","P","Q","R","S","T","U","V","W","X","Y","Z">>
LowerLetters ==
  <<"a","b","c","d","e","f","g","h","i","j","k","l","m",
    "n","o","p","q","r","s","t","u","v","w","x","y","z">>

LowerChar(c) ==
  IF \E i \in 1..26 : UpperLetters[i] = c
    THEN LowerLetters[CHOOSE i \in 1..26 : UpperLetters[i] = c]
    ELSE c

Lower(s) == [i \in 1..Len(s) |-> LowerChar(s[i])]

RECURSIVE LStrip(_)
LStrip(s) == IF s # <<>> /\ Head(s) \in Whitespace THEN LStrip(Tail(s)) ELSE s

RECURSIVE RStrip(_)
RStrip(s) ==
  IF s # <<>> /\ s[Len(s)] \in Whitespace THEN RStrip(SubSeq(s, 1, Len(s) - 1)) ELSE s

Strip(s) == RStrip(LStrip(s))

(* Python's `needle in haystack` on strings *)
Contains(hay, needle) ==
  \E i \in 1..(Len(hay) + 1) :
     /\ i + Len(needle) - 1 <= Len(hay)
     /\ SubSeq(hay, i, i + Len(needle) - 1) = needle

QuitKeys == { <<"q">>, <<"q","u","i","t">>, <<"e","x","i","t">> }
SkipKeys == { <<"n">>, <<"n","e","x","t">>, <<>> }

(* the lines a user may type (without the newline) *)
UserLines ==
  { <<"q">>, <<" ","Q">>, <<"E","x","i","t"," ">>, <<"q","u","i","t">>,
    <<"n">>, <<"N","E","X","T">>, <<>>, <<"x">> }

(* ---------------- the remote service's answers to POST /play ------------ *)
NoTrackText == <<"N","o"," ","t","r","a","c","k">>

TrackUrl   == [truthy |-> TRUE,  mpeg |-> "url"]
TrackNoUrl == [truthy |-> TRUE,  mpeg |-> NoneV]
EmptyJson  == [truthy |-> FALSE, mpeg |-> NoneV]

Responses ==
  { [status |-> 200, valid |-> TRUE,  json |-> TrackUrl,   error |-> <<>>],
    [status |-> 200, valid |-> TRUE,  json |-> TrackNoUrl, error |-> <<>>],
    [status |-> 400, valid |-> TRUE,  json |-> EmptyJson,  error |-> NoTrackText \o <<" ","f","o","u","n","d">>],
    [status |-> 400, valid |-> TRUE,  json |-> EmptyJson,  error |-> <<"b","a","d">>],
    [status |-> 500, valid |-> TRUE,  json |-> EmptyJson,  error |-> NoTrackText],
    [status |-> 0,   valid |-> FALSE, json |-> EmptyJson,  error |-> <<>>] }

(* further failure shapes: bodies that do not parse, a lowercase or missing
   error text, another client error *)
FailureResponses ==
  { [status |-> 200, valid |-> FALSE, json |-> EmptyJson,  error |-> <<>>],
    [status |-> 400, valid |-> TRUE,  json |-> EmptyJson,  error |-> <<"n","o"," ","t","r","a","c","k">>],
    [status |-> 400, valid |-> TRUE,  json |-> EmptyJson,  error |-> <<>>],
    [status |-> 400, valid |-> FALSE, json |-> EmptyJson,  error |-> NoTrackText],
    [status |-> 404, valid |-> TRUE,  json |-> EmptyJson,  error |-> NoTrackText] }

(* no request sent yet *)
NoReq == [mode |-> "none", isocodes |-> <<>>, decades |-> <<>>, moods |-> <<>>]

(* get_track: the request body *)
Body(s) ==
  [mode |-> "explore",
   isocodes |-> IF s.country # NoneV THEN <<s.country>> ELSE <<>>,
   decades |-> s.decades,
   moods |-> IF s.moods # NoneV /\ s.moods # <<>> THEN s.moods ELSE MOODS]

GetTrackAny400(r) ==
  IF r.status = 200
    THEN IF r.valid THEN [kind |-> "value", json |-> r.json]
                    ELSE [kind |-> "raise", json |-> EmptyJson]
  ELSE IF r.status = 400 /\ r.valid
       THEN [kind |-> "value", json |-> EmptyJson]
       ELSE [kind |-> "raise", json |-> EmptyJson]

(* get_track: the result for a response: the parsed track, None (the falsy
   EmptyJson), or a raised error. status 0 is a transport failure, valid says
   whether the body parses as JSON, error is the JSON's "error" text *)
get_track(r) ==
  IF r.status = 200
    THEN IF r.valid THEN [kind |-> "value", json |-> r.json]
                    ELSE [kind |-> "raise", json |-> EmptyJson]
  ELSE IF r.status = 400 /\ r.valid /\ Contains(r.error, NoTrackText)
       THEN [kind |-> "value", json |-> EmptyJson]
       ELSE [kind |-> "raise", json |-> EmptyJson]

(* play_track: the executable chosen by shutil.which("mpv") or shutil.which("ffplay") *)
Players == {"mpv", "ffplay"}
Which(installed) ==
  IF "mpv" \in installed THEN "mpv"
  ELSE IF "ffplay" \in installed THEN "ffplay" ELSE NoneV

(* ---------------- resolve_decade ---------------- *)
DECADES == {1900 + 10 * k : k \in 0..12}

DigitChars == <<"0","1","2","3","4","5","6","7","8","9">>
IsDigit(c) == \E i \in 1..10 : DigitChars[i] = c
DigitVal(c) == (CHOOSE i \in 1..10 : DigitChars[i] = c) - 1

RECURSIVE DigitsVal(_)
DigitsVal(s) ==
  IF s = <<>> THEN 0
  ELSE 10 * DigitsVal(SubSeq(s, 1, Len(s) - 1)) + DigitVal(s[Len(s)])

(* int(s): blanks around, an optional sign, then decimal digits *)
ParseInt(s) ==
  LET t == Strip(s)
      signed == t # <<>> /\ Head(t) \in {"-", "+"}
      body == IF signed THEN Tail(t) ELSE t
  IN IF body # <<>> /\ \A i \in 1..Len(body) : IsDigit(body[i])
       THEN [ok |-> TRUE,
             val |-> IF signed /\ Head(t) = "-" THEN 0 - DigitsVal(body)
                                                ELSE DigitsVal(body)]
       ELSE [ok |-> FALSE, val |-> 0]

(* str(n) of an integer *)
RECURSIVE NatToStr(_)
NatToStr(n) ==
  IF n < 10 THEN <<DigitChars[n + 1]>>
  ELSE NatToStr(n \div 10) \o <<DigitChars[(n % 10) + 1]>>

IntToStr(n) == IF n < 0 THEN <<"-">> \o NatToStr(0 - n) ELSE NatToStr(n)

(* str.rstrip('s') *)
RECURSIVE RStripS(_)
RStripS(s) ==
  IF s # <<>> /\ s[Len(s)] = "s" THEN RStripS(SubSeq(s, 1, Len(s) - 1)) ELSE s

(* dec_str.lower().strip().rstrip('s') *)
DecadeText(f) == RStripS(Strip(Lower(f)))

ResolveDecadeRangeFirst(dec_str) ==
  LET p == ParseInt(DecadeText(dec_str))
      n0 == p.val
      n1 == IF n0 < 100
              THEN IF n0 >= 0 /\ n0 <= 20 THEN 2000 + n0 ELSE 1900 + n0
              ELSE n0
  IN IF ~p.ok THEN [kind |-> "invalid", n |-> 0]
     ELSE IF n1 \in DECADES THEN [kind |-> "ok", n |-> n1]
     ELSE [kind |-> "out_of_range", n |-> n1]

ResolveDecadeCutoff19(dec_str) ==
  LET p == ParseInt(DecadeText(dec_str))
      n0 == p.val
      n1 == IF n0 < 100
              THEN IF n0 >= 0 /\ n0 < 20 THEN 2000 + n0 ELSE 1900 + n0
              ELSE n0
      n2 == (n1 \div 10) * 10
  IN IF ~p.ok THEN [kind |-> "invalid", n |-> 0]
     ELSE IF n2 \in DECADES THEN [kind |-> "ok", n |-> n2]
     ELSE [kind |-> "out_of_range", n |-> n2]

(* resolve_decade: "ok" with the decade, or the error it exits with *)
resolve_decade(dec_str) ==
  LET p == ParseInt(DecadeText(dec_str))
      n0 == p.val
      n1 == IF n0 < 100
              THEN IF n0 >= 0 /\ n0 <= 20 THEN 2000 + n0 ELSE 1900 + n0
              ELSE n0
      n2 == (n1 \div 10) * 10
  IN IF ~p.ok THEN [kind |-> "invalid", n |-> 0]
     ELSE IF n2 \in DECADES THEN [kind |-> "ok", n |-> n2]
     ELSE [kind |-> "out_of_range", n |-> n2]

(* ---------------- get_countries / resolve_country ---------------- *)

(* country tables the service may return: [iso, name] pairs *)
DirEurope ==
  << <<<<"I","T","A">>, <<"I","t","a","l","y">>>>,
     <<<<"F","I","N">>, <<"F","i","n","l","a","n","d">>>>,
     <<<<"I","S","L">>, <<"I","c","e","l","a","n","d">>>>,
     <<<<"J","P","N">>, <<"J","a","p","a","n">>>> >>

DirAfrica ==
  << <<<<"N","E","R">>, <<"N","i","g","e","r">>>>,
     <<<<"N","G","A">>, <<"N","i","g","e","r","i","a">>>>,
     <<<<"L","A","O">>, <<"L","a","o">>>>,
     <<<<"T","C","D">>, <<"C","h","a","d">>>> >>

Directories == <<DirEurope, DirAfrica, <<>>>>

EmptyMap == [k \in {} |-> k]

(* the lookup built by get_countries: lowercase name -> iso, then lowercase
   iso -> iso, a later assignment replacing an earlier one *)
RECURSIVE Mapping(_)
Mapping(data) ==
  IF data = <<>> THEN EmptyMap
  ELSE LET item == data[Len(data)]
           iso == item[1]
           name == item[2]
       IN (Lower(iso) :> iso) @@ (Lower(name) :> iso)
            @@ Mapping(SubSeq(data, 1, Len(data) - 1))

(* names: iso -> display name *)
RECURSIVE Names(_)
Names(data) ==
  IF data = <<>> THEN EmptyMap
  ELSE LET item == data[Len(data)]
       IN (item[1] :> item[2]) @@ Names(SubSeq(data, 1, Len(data) - 1))

ListedMax == 10

ResolveCountryPartialFirst(data, query) ==
  LET mapping == Mapping(data)
      q == Strip(Lower(query))
      hits == {k \in DOMAIN mapping : Len(k) > 3 /\ Contains(k, q)}
      unique == {mapping[k] : k \in hits}
  IN IF Cardinality(unique) = 1
       THEN [kind |-> "code", code |-> CHOOSE c \in unique : TRUE, listed |-> {}]
     ELSE IF Cardinality(unique) > 1
       THEN [kind |-> "ambiguous", code |-> <<>>, listed |-> unique]
     ELSE IF q \in DOMAIN mapping
       THEN [kind |-> "code", code |-> mapping[q], listed |-> {}]
     ELSE [kind |-> "unknown", code |-> <<>>, listed |-> {}]

(* resolve_country on a loaded table: the code, or the error it exits with
   (listed: the codes printed, all of them while there are at most ten) *)
resolve_country(data, query) ==
  LET mapping == Mapping(data)
      q == Strip(Lower(query))
      hits == {k \in DOMAIN mapping : Len(k) > 3 /\ Contains(k, q)}
      unique == {mapping[k] : k \in hits}
  IN IF q \in DOMAIN mapping
       THEN [kind |-> "code", code |-> mapping[q], listed |-> {}]
     ELSE IF Cardinality(unique) = 1
       THEN [kind |-> "code", code |-> CHOOSE c \in unique : TRUE, listed |-> {}]
     ELSE IF Cardinality(unique) > 1
       THEN [kind |-> "ambiguous", code |-> <<>>,
             listed |-> IF Cardinality(unique) <= ListedMax THEN unique
                        ELSE CHOOSE t \in SUBSET unique : Cardinality(t) = ListedMax]
     ELSE [kind |-> "unknown", code |-> <<>>, listed |-> {}]

(* ---------------- state ---------------- *)
VARIABLES
  pc,        \* position of interactive_mode
  process,   \* the local `process`: 0 for None, else index into children
  children,  \* every child player started: "running" | "terminating" | "exited"
  track,     \* the local `track`
  fetches,   \* number of get_track calls issued
  lastReq,   \* body of the latest request
  sel,       \* the session's filter selection (country, decades, moods)
  stdin,     \* lines typed and not yet read
  typed,     \* number of lines typed so far
  eof,       \* standard input closed
  reads,     \* number of readline calls made
  ret,       \* value returned by play_track, not yet stored in `process`
  exitCode,  \* exit status of the process, NoExit while it runs
  endReason, \* the event that ended the session, "none" while it runs
  filters,   \* main: the positional tokens not yet processed
  one,       \* main: args.one
  cache,     \* _countries_cache
  log,       \* main: errors printed, network calls made, tokens resolved
  fin,       \* input of the function under study
  fout       \* its result

mvars == <<filters, one, cache, log, fin, fout>>

vars == <<pc, process, children, track, fetches, lastReq, sel, stdin, typed,
          eof, reads, ret, exitCode, endReason, filters, one, cache, log,
          fin, fout>>

NotLoaded == [loaded |-> FALSE, data |-> <<>>]
NoIn == [fn |-> "none", text |-> <<>>, dir |-> 0, resp |-> 0]
NoOut == [kind |-> "pending"]

(* main and the function studies at rest *)
MainIdle ==
  /\ filters = <<>>
  /\ one = FALSE
  /\ cache = NotLoaded
  /\ log = <<>>
  /\ fin = NoIn
  /\ fout = NoOut

Init ==
  /\ pc = "fetch"
  /\ process = 0
  /\ children = <<>>
  /\ track = EmptyJson
  /\ fetches = 0
  /\ lastReq = NoReq
  /\ sel \in Selections
  /\ stdin = <<>>
  /\ typed = 0
  /\ eof \in BOOLEAN
  /\ reads = 0
  /\ ret = 0
  /\ exitCode = NoExit
  /\ endReason = "none"
  /\ MainIdle

(* ---------------- helpers of interactive_mode ---------------- *)

(* process.poll() is None *)
Alive(ch, p) == p # 0 /\ ch[p] # "exited"

NoTerminate(ch, p) == ch

(* if process and process.poll() is None: process.terminate() *)
TerminateIfAlive(ch, p) ==
  IF Alive(ch, p) THEN [ch EXCEPT ![p] = "terminating"] ELSE ch

CleanupNoKill(why) ==
  /\ children' = children
  /\ endReason' = why
  /\ exitCode' = 0
  /\ pc' = "done"

(* cleanup(): terminate the current child, say goodbye, sys.exit(0) *)
cleanup(why) ==
  /\ children' = TerminateIfAlive(children, process)
  /\ endReason' = why
  /\ exitCode' = 0
  /\ pc' = "done"

AfterFetchRetry(res) ==
  IF res.kind = "raise"
    THEN [pc |-> "done", exitCode |-> 1, endReason |-> "fetcherror"]
  ELSE IF ~res.json.truthy
    THEN [pc |-> "fetch", exitCode |-> NoExit, endReason |-> "notrack"]
  ELSE [pc |-> "killprev", exitCode |-> NoExit, endReason |-> "none"]

(* what the loop does with get_track's outcome: an uncaught error ends the
   process with status 1, a falsy track breaks out of the loop (main then
   returns, status 0), a track goes on to be played *)
AfterFetch(res) ==
  IF res.kind = "raise"
    THEN [pc |-> "done", exitCode |-> 1, endReason |-> "fetcherror"]
  ELSE IF ~res.json.truthy
    THEN [pc |-> "done", exitCode |-> 0, endReason |-> "notrack"]
  ELSE [pc |-> "killprev", exitCode |-> NoExit, endReason |-> "none"]

KeyActionElseSkip(key) ==
  IF key \in QuitKeys THEN "quit" ELSE "skip"

KeyActionQuitSkips(key) ==
  IF key \in QuitKeys \/ key \in SkipKeys THEN "skip" ELSE "ignore"

(* the if/elif on the key read: quit, skip, or neither (keep waiting) *)
KeyAction(key) ==
  IF key \in QuitKeys THEN "quit"
  ELSE IF key \in SkipKeys THEN "skip"
  ELSE "ignore"

(* sys.stdin.readline(): the next line with its newline, "" at end of file *)
ReadLineValue == IF stdin # <<>> THEN Head(stdin) \o <<"\n">> ELSE <<>>

(* ---------------- steps of interactive_mode ---------------- *)

(* track = get_track(country, decades, moods); if not track: break *)
Fetch(r) ==
  /\ pc = "fetch"
  /\ fetches < MaxFetch
  /\ LET res == get_track(r)
         nxt == AfterFetch(res)
     IN /\ pc' = nxt.pc
        /\ exitCode' = nxt.exitCode
        /\ endReason' = nxt.endReason
        /\ track' = res.json
  /\ fetches' = fetches + 1
  /\ lastReq' = Body(sel)
  /\ UNCHANGED <<process, children, sel, stdin, typed, eof, reads, ret>>
  /\ UNCHANGED mvars

(* Kill previous track *)
KillPrevious ==
  /\ pc = "killprev"
  /\ children' = TerminateIfAlive(children, process)
  /\ pc' = "play"
  /\ UNCHANGED <<process, track, fetches, lastReq, sel, stdin, typed, eof,
                 reads, ret, exitCode, endReason>>
  /\ UNCHANGED mvars

(* play_track(track): None without a URL or a player, else a new child *)
PlayTrack(installed) ==
  /\ pc = "play"
  /\ IF track.mpeg = NoneV \/ Which(installed) = NoneV
       THEN /\ ret' = 0
            /\ UNCHANGED children
       ELSE /\ children' = Append(children, "running")
            /\ ret' = Len(children) + 1
  /\ pc' = "store"
  /\ UNCHANGED <<process, track, fetches, lastReq, sel, stdin, typed, eof,
                 reads, exitCode, endReason>>
  /\ UNCHANGED mvars

StoreHandleNoBreak ==
  /\ pc = "store"
  /\ process' = ret
  /\ IF ret = 0
       THEN pc' = "fetch" /\ exitCode' = NoExit /\ endReason' = "noplayer"
       ELSE pc' = "poll" /\ UNCHANGED <<exitCode, endReason>>
  /\ UNCHANGED <<children, track, fetches, lastReq, sel, stdin, typed, eof,
                 reads, ret>>
  /\ UNCHANGED mvars

(* process = <returned value>; if not process: break *)
StoreHandle ==
  /\ pc = "store"
  /\ process' = ret
  /\ IF ret = 0
       THEN pc' = "done" /\ exitCode' = 0 /\ endReason' = "noplayer"
       ELSE pc' = "poll" /\ UNCHANGED <<exitCode, endReason>>
  /\ UNCHANGED <<children, track, fetches, lastReq, sel, stdin, typed, eof,
                 reads, ret>>
  /\ UNCHANGED mvars

PollChildInputFirst ==
  /\ pc = "poll"
  /\ pc' = IF stdin # <<>> \/ Alive(children, process) THEN "select" ELSE "endkill"
  /\ UNCHANGED <<process, children, track, fetches, lastReq, sel, stdin,
                 typed, eof, reads, ret, exitCode, endReason>>
  /\ UNCHANGED mvars

PollChildNever ==
  /\ pc = "poll"
  /\ pc' = "select"
  /\ UNCHANGED <<process, children, track, fetches, lastReq, sel, stdin,
                 typed, eof, reads, ret, exitCode, endReason>>
  /\ UNCHANGED mvars

(* if process.poll() is not None: break *)
PollChild ==
  /\ pc = "poll"
  /\ pc' = IF Alive(children, process) THEN "select" ELSE "endkill"
  /\ UNCHANGED <<process, children, track, fetches, lastReq, sel, stdin,
                 typed, eof, reads, ret, exitCode, endReason>>
  /\ UNCHANGED mvars

(* select.select([sys.stdin], [], [], 0.5) returns nothing readable *)
SelectTimeout ==
  /\ pc = "select"
  /\ stdin = <<>> /\ ~eof
  /\ pc' = "poll"
  /\ UNCHANGED <<process, children, track, fetches, lastReq, sel, stdin,
                 typed, eof, reads, ret, exitCode, endReason>>
  /\ UNCHANGED mvars

(* stdin readable: key = sys.stdin.readline().strip().lower() and its branch *)
ReadLine ==
  /\ pc = "select"
  /\ stdin # <<>> \/ eof
  /\ LET key == Lower(Strip(ReadLineValue))
         act == KeyAction(key)
     IN CASE act = "quit" -> cleanup("quit")
          [] act = "skip" -> pc' = "endkill" /\ UNCHANGED <<children, exitCode, endReason>>
          [] OTHER -> pc' = "poll" /\ UNCHANGED <<children, exitCode, endReason>>
  /\ stdin' = IF stdin # <<>> THEN Tail(stdin) ELSE stdin
  /\ reads' = reads + 1
  /\ UNCHANGED <<process, track, fetches, lastReq, sel, typed, eof, ret>>
  /\ UNCHANGED mvars

EndKillSkipped ==
  /\ pc = "endkill"
  /\ pc' = "fetch"
  /\ UNCHANGED <<process, children, track, fetches, lastReq, sel, stdin,
                 typed, eof, reads, ret, exitCode, endReason>>
  /\ UNCHANGED mvars

(* after the wait: if process and process.poll() is None: process.terminate() *)
EndKill ==
  /\ pc = "endkill"
  /\ children' = TerminateIfAlive(children, process)
  /\ pc' = "fetch"
  /\ UNCHANGED <<process, track, fetches, lastReq, sel, stdin, typed, eof,
                 reads, ret, exitCode, endReason>>
  /\ UNCHANGED mvars

(* SIGINT delivered while the session runs: the installed handler is cleanup *)
SigInt ==
  /\ pc # "done"
  /\ cleanup("interrupt")
  /\ UNCHANGED <<process, track, fetches, lastReq, sel, stdin, typed, eof,
                 reads, ret>>
  /\ UNCHANGED mvars

(* ---------------- the environment ---------------- *)

(* a child player exits: end of stream, or its reaction to SIGTERM *)
ChildExit(i) ==
  /\ children[i] # "exited"
  /\ children' = [children EXCEPT ![i] = "exited"]
  /\ UNCHANGED <<pc, process, track, fetches, lastReq, sel, stdin, typed,
                 eof, reads, ret, exitCode, endReason>>
  /\ UNCHANGED mvars

(* the user types a line *)
UserType(l) ==
  /\ pc # "done"
  /\ ~eof
  /\ typed < MaxInput
  /\ stdin' = Append(stdin, l)
  /\ typed' = typed + 1
  /\ UNCHANGED <<pc, process, children, track, fetches, lastReq, sel, eof,
                 reads, ret, exitCode, endReason>>
  /\ UNCHANGED mvars

(* standard input reaches end of file *)
CloseStdin ==
  /\ pc # "done"
  /\ ~eof
  /\ eof' = TRUE
  /\ UNCHANGED <<pc, process, children, track, fetches, lastReq, sel, stdin,
                 typed, reads, ret, exitCode, endReason>>
  /\ UNCHANGED mvars

Controller ==
  \/ \E r \in Responses : Fetch(r)
  \/ KillPrevious
  \/ \E inst \in SUBSET Players : PlayTrack(inst)
  \/ StoreHandle
  \/ PollChild
  \/ SelectTimeout
  \/ ReadLine
  \/ EndKill

Environment ==
  \/ SigInt
  \/ \E i \in 1..Len(children) : ChildExit(i)
  \/ \E l \in UserLines : UserType(l)
  \/ CloseStdin

Next == Controller \/ Environment

Spec == Init /\ [][Next]_vars

(* the single thread of control always takes its next step: the fetch has a
   timeout, the select has a timeout, nothing else blocks *)
FairSpec == Spec /\ WF_vars(Controller)

(* ---------------- the session without an iteration limit -------------- *)

(* `while True` has no iteration limit. When the bound on fetches is reached
   and every child of the earlier iterations has exited, nothing of them is
   left but handles that no longer matter (`process` is rebound at the next
   start, and an exited child is as good as None to every test of it): the
   counts of fetches and reads start again. *)
Recycle ==
  /\ pc = "fetch"
  /\ fetches = MaxFetch
  /\ \A i \in 1..Len(children) : children[i] = "exited"
  /\ children' = <<>>
  /\ process' = 0
  /\ fetches' = 0
  /\ reads' = 0
  /\ UNCHANGED <<pc, track, lastReq, sel, stdin, typed, eof, ret,
                 exitCode, endReason>>
  /\ UNCHANGED mvars

CycleNext == Next \/ Recycle

(* the thread of control takes its next step, and every player process
   exits in the end (its stream is finite, SIGTERM ends it) *)
CycleSpec ==
  /\ Init
  /\ [][CycleNext]_vars
  /\ WF_vars(Controller)
  /\ WF_vars(Recycle)
  /\ WF_vars(\E i \in 1..Len(children) : ChildExit(i))

(* ---------------- main: the filter tokens and single-shot mode --------- *)
MaxTokens == 2

(* exit status of an uncaught KeyboardInterrupt *)
SIGINT_STATUS == 130

(* positional tokens a user may give *)
Tokens ==
  { <<"7","0","s">>, <<"1","9","7","0">>, <<"2","0","5","0">>,
    <<"1","8","0","0","s">>, <<"i","t","a","l","y">>, <<"F","I","N">>,
    <<"l","a","n","d">>, <<"a","t","l","a","n","t","i","s">> }

RECURSIVE SeqsUpTo(_, _)
SeqsUpTo(S, n) ==
  IF n = 0 THEN {<<>>}
  ELSE LET shorter == SeqsUpTo(S, n - 1)
       IN shorter \cup {Append(q, x) : q \in shorter, x \in S}

(* the text of a code, as the string kept in `country` *)
RECURSIVE Join(_)
Join(cs) == IF cs = <<>> THEN "" ELSE Join(SubSeq(cs, 1, Len(cs) - 1)) \o cs[Len(cs)]

Event(e, tok) == [ev |-> e, tok |-> tok]
Logged(e) == {i \in 1..Len(log) : log[i].ev = e}

(* the token has integer form: int(f.lower().strip().rstrip('s')) succeeds *)
IntegerForm(f) == ParseInt(DecadeText(f)).ok

MainInit ==
  /\ pc = "main_loop"
  /\ process = 0
  /\ children = <<>>
  /\ track = EmptyJson
  /\ fetches = 0
  /\ lastReq = NoReq
  /\ \/ sel = [country |-> NoneV, decades |-> <<>>, moods |-> NoneV]
     \/ sel = [country |-> NoneV, decades |-> <<>>, moods |-> <<"SLOW">>]
  /\ stdin = <<>>
  /\ typed = 0
  /\ eof = FALSE
  /\ reads = 0
  /\ ret = 0
  /\ exitCode = NoExit
  /\ endReason = "none"
  /\ filters \in SeqsUpTo(Tokens, MaxTokens)
  /\ one \in BOOLEAN
  /\ cache = NotLoaded
  /\ log = <<>>
  /\ fin = NoIn
  /\ fout = NoOut

AfterCountryKeepGoing(res) ==
  IF res.kind = "code"
    THEN [pc |-> "main_loop", exitCode |-> NoExit, endReason |-> "none"]
    ELSE [pc |-> "main_loop", exitCode |-> NoExit, endReason |-> res.kind]

(* what main does with resolve_country's outcome: a code is kept, an unknown
   or ambiguous query has already exited with status 1 *)
AfterCountry(res) ==
  IF res.kind = "code"
    THEN [pc |-> "main_loop", exitCode |-> NoExit, endReason |-> "none"]
    ELSE [pc |-> "done", exitCode |-> 1, endReason |-> res.kind]

(* get_countries with reply 0 (the request fails) or the index of the table
   returned; the cache is used once loaded *)
CacheAfter(reply) ==
  IF cache.loaded THEN cache
  ELSE IF reply = 0 THEN NotLoaded
  ELSE [loaded |-> TRUE, data |-> Directories[reply]]

NetLog(l) == IF cache.loaded THEN l ELSE Append(l, Event("net_countries", <<>>))

(* one round of `for f in args.filters`: decade first, else country *)
ParseToken(reply) ==
  /\ pc = "main_loop"
  /\ filters # <<>>
  /\ LET f == Head(filters)
         dec == resolve_decade(f)
         asDecade == IntegerForm(f) /\ dec.kind = "ok"
         log1 == IF IntegerForm(f) /\ dec.kind # "ok"
                   THEN Append(log, Event("decade_error", f)) ELSE log
     IN IF asDecade
          THEN /\ sel' = [sel EXCEPT !.decades = Append(@, dec.n)]
               /\ filters' = Tail(filters)
               /\ UNCHANGED <<pc, exitCode, endReason, cache, log>>
        ELSE IF sel.country # NoneV
          THEN /\ pc' = "done"
               /\ exitCode' = 1
               /\ endReason' = "multiple_countries"
               /\ log' = log1
               /\ UNCHANGED <<sel, filters, cache>>
        ELSE LET log2 == NetLog(Append(log1, Event("country_call", f)))
                 c == CacheAfter(reply)
             IN /\ log' = log2
                /\ cache' = c
                /\ IF ~c.loaded
                     THEN /\ pc' = "done"
                          /\ exitCode' = 1
                          /\ endReason' = "directory_error"
                          /\ UNCHANGED <<sel, filters>>
                     ELSE LET res == resolve_country(c.data, f)
                              nxt == AfterCountry(res)
                          IN /\ pc' = nxt.pc
                             /\ exitCode' = nxt.exitCode
                             /\ endReason' = nxt.endReason
                             /\ IF res.kind = "code"
                                  THEN /\ sel' = [sel EXCEPT !.country = Join(res.code)]
                                       /\ filters' = Tail(filters)
                                  ELSE UNCHANGED <<sel, filters>>
  /\ UNCHANGED <<process, children, track, fetches, lastReq, stdin, typed,
                 eof, reads, ret, one, fin, fout>>

(* after the loop: get_countries, then single-shot or interactive_mode, whose
   loop entry (handler installed) is the initial state of Spec *)
Dispatch(reply) ==
  /\ pc = "main_loop"
  /\ filters = <<>>
  /\ log' = NetLog(log)
  /\ cache' = CacheAfter(reply)
  /\ IF ~cache'.loaded
       THEN pc' = "done" /\ exitCode' = 1 /\ endReason' = "directory_error"
       ELSE /\ pc' = IF one THEN "one_fetch" ELSE "fetch"
            /\ UNCHANGED <<exitCode, endReason>>
  /\ UNCHANGED <<process, children, track, fetches, lastReq, sel, stdin,
                 typed, eof, reads, ret, filters, one, fin, fout>>

(* track = get_track(country, decades, moods) of the single-shot branch *)
OneFetch(r) ==
  /\ pc = "one_fetch"
  /\ LET res == get_track(r)
     IN /\ track' = res.json
        /\ IF res.kind = "raise"
             THEN pc' = "done" /\ exitCode' = 1 /\ endReason' = "fetcherror"
           ELSE IF ~res.json.truthy
             THEN pc' = "done" /\ exitCode' = 0 /\ endReason' = "notrack"
           ELSE pc' = "one_play" /\ UNCHANGED <<exitCode, endReason>>
  /\ fetches' = fetches + 1
  /\ lastReq' = Body(sel)
  /\ UNCHANGED <<process, children, sel, stdin, typed, eof, reads, ret>>
  /\ UNCHANGED mvars

(* play_track(track) of the single-shot branch *)
OnePlay(installed) ==
  /\ pc = "one_play"
  /\ IF track.mpeg = NoneV \/ Which(installed) = NoneV
       THEN /\ ret' = 0
            /\ UNCHANGED children
       ELSE /\ children' = Append(children, "running")
            /\ ret' = Len(children) + 1
  /\ pc' = "one_store"
  /\ UNCHANGED <<process, track, fetches, lastReq, sel, stdin, typed, eof,
                 reads, exitCode, endReason>>
  /\ UNCHANGED mvars

(* proc = <returned value>; if proc: ... *)
OneStore ==
  /\ pc = "one_store"
  /\ process' = ret
  /\ IF ret = 0
       THEN pc' = "done" /\ exitCode' = 0 /\ endReason' = "noplayer"
       ELSE pc' = "one_wait" /\ UNCHANGED <<exitCode, endReason>>
  /\ UNCHANGED <<children, track, fetches, lastReq, sel, stdin, typed, eof,
                 reads, ret>>
  /\ UNCHANGED mvars

OneWaitRefetch ==
  /\ pc = "one_wait"
  /\ children[process] = "exited"
  /\ pc' = "one_fetch"
  /\ UNCHANGED <<exitCode, endReason>>
  /\ UNCHANGED <<process, children, track, fetches, lastReq, sel, stdin,
                 typed, eof, reads, ret>>
  /\ UNCHANGED mvars

(* proc.wait() returns: the child has exited, main returns *)
OneWait ==
  /\ pc = "one_wait"
  /\ children[process] = "exited"
  /\ pc' = "done"
  /\ exitCode' = 0
  /\ endReason' = "ended"
  /\ UNCHANGED <<process, children, track, fetches, lastReq, sel, stdin,
                 typed, eof, reads, ret>>
  /\ UNCHANGED mvars

(* SIGINT in main: no handler is installed, KeyboardInterrupt is raised; only
   the wait catches it (proc.terminate()), elsewhere it is uncaught *)
MainSigInt ==
  /\ pc \in {"main_loop", "one_fetch", "one_play", "one_store", "one_wait"}
  /\ pc' = "done"
  /\ IF pc = "one_wait"
       THEN /\ children' = TerminateIfAlive(children, process)
            /\ exitCode' = 0
            /\ endReason' = "interrupt"
       ELSE /\ exitCode' = SIGINT_STATUS
            /\ endReason' = "keyboardinterrupt"
            /\ UNCHANGED children
  /\ UNCHANGED <<process, track, fetches, lastReq, sel, stdin, typed, eof,
                 reads, ret>>
  /\ UNCHANGED mvars

MainNext ==
  \/ \E reply \in 0..Len(Directories) : ParseToken(reply)
  \/ \E reply \in 0..Len(Directories) : Dispatch(reply)
  \/ \E r \in Responses : OneFetch(r)
  \/ \E inst \in SUBSET Players : OnePlay(inst)
  \/ OneStore
  \/ OneWait
  \/ MainSigInt
  \/ \E i \in 1..Len(children) : ChildExit(i)

MainSpec == MainInit /\ [][MainNext]_vars

(* ---------------- the functions on their own ---------------- *)
NegSpan == 25
SmallSpan == 130
YearLow == 1880
YearHigh == 2045

DecadeInts == ((0 - NegSpan)..SmallSpan) \cup (YearLow..YearHigh)

Text_abc == <<"a","b","c">>
Text_2021 == <<"2","0","2","1">>
Text_2030 == <<"2","0","3","0">>

(* texts given to resolve_decade: every integer of DecadeInts in decimal,
   and forms with a suffix, blanks, a sign, or no number at all *)
DecadeTexts ==
  {IntToStr(n) : n \in DecadeInts} \cup
  { <<"7","0","s">>, <<"1","9","7","0","S">>, <<" ","7","0"," ">>, Text_abc,
    <<>>, <<"s">>, <<"7","s","s">>, <<"+","7","0">>, <<"7"," ","0">>,
    <<"7","0","s"," ">> }

(* queries given to resolve_country *)
CountryQueries ==
  { <<"i","t","a","l","y">>, <<"I","T","A">>, <<" ","i","t","a"," ">>,
    <<"l","a","n","d">>, <<"L","A">>, <<"n","i","g","e","r">>,
    <<"N","i","g","e">>, <<"n","i","g","e","r","i","a">>, <<"e","r">>,
    <<"a","t","l","a","n","t","i","s">>, <<"j","a">>, <<"a","o">>,
    <<"l","a","o">>, <<"c","h","a">>, <<"f","i","n">>, <<>> }

NoResp == [status |-> -1, valid |-> FALSE, json |-> EmptyJson, error |-> <<>>]

FnInputs ==
  {[fn |-> "decade", text |-> t, dir |-> 0, resp |-> NoResp] : t \in DecadeTexts}
  \cup {[fn |-> "country", text |-> q, dir |-> d, resp |-> NoResp] :
          q \in CountryQueries, d \in 1..Len(Directories)}
  \cup {[fn |-> "track", text |-> <<>>, dir |-> 0, resp |-> r] :
          r \in Responses \cup FailureResponses}

FnInit ==
  /\ pc = "fn"
  /\ process = 0
  /\ children = <<>>
  /\ track = EmptyJson
  /\ fetches = 0
  /\ lastReq = NoReq
  /\ sel = [country |-> NoneV, decades |-> <<>>, moods |-> NoneV]
  /\ stdin = <<>>
  /\ typed = 0
  /\ eof = FALSE
  /\ reads = 0
  /\ ret = 0
  /\ exitCode = NoExit
  /\ endReason = "none"
  /\ filters = <<>>
  /\ one = FALSE
  /\ cache = NotLoaded
  /\ log = <<>>
  /\ fin \in FnInputs
  /\ fout = NoOut

FnRest == <<pc, process, children, track, fetches, lastReq, sel, stdin, typed,
            eof, reads, ret, exitCode, endReason, filters, one, cache, log, fin>>

ApplyDecade ==
  /\ fin.fn = "decade" /\ fout = NoOut
  /\ fout' = resolve_decade(fin.text)
  /\ UNCHANGED FnRest

ApplyCountry ==
  /\ fin.fn = "country" /\ fout = NoOut
  /\ fout' = resolve_country(Directories[fin.dir], fin.text)
  /\ UNCHANGED FnRest

ApplyTrack ==
  /\ fin.fn = "track" /\ fout = NoOut
  /\ fout' = get_track(fin.resp)
  /\ UNCHANGED FnRest

FnNext == ApplyDecade \/ ApplyCountry \/ ApplyTrack

FnSpec == FnInit /\ [][FnNext]_vars

(* ---------------- notions used by the properties ---------------- *)
RunningSet == {i \in 1..Len(children) : children[i] = "running"}
AliveSet == {i \in 1..Len(children) : children[i] # "exited"}
Playing == pc \in {"poll", "select"}
Terminated == endReason # "none"
(* the key of the line a readline would return now *)
KeyNow == Lower(Strip(ReadLineValue))
(* this step reads a line of input *)
ReadStep == pc = "select" /\ reads' = reads + 1

(* ---------------- properties ---------------- *)

(* C1: at no point are two player children simultaneously alive, a child
   being alive from its start until it has actually exited. *)
C1_AtMostOneAlive == Cardinality(AliveSet) <= 1

(* C2: no child is started while an earlier child is alive and has not been
   asked to terminate. *)
C2_StartAfterStop ==
  [][Len(children') > Len(children)
       => \A i \in 1..Len(children) : children[i] # "running"]_vars

C2_Witness ==
  /\ Len(children) >= 2
  /\ children[1] = "terminating"
  /\ children[Len(children)] = "running"

(* C3: after an interrupt every alive child has been asked to terminate and
   the exit code is 0. *)
C3_InterruptStopsAll ==
  endReason = "interrupt" => (exitCode = 0 /\ RunningSet = {})

(* C4: once the session has terminated, no further fetch, child start or
   input handling occurs. *)
C4_TerminatedAbsorbing ==
  [][Terminated => /\ fetches' = fetches
                   /\ Len(children') = Len(children)
                   /\ reads' = reads]_vars

C4_Witness ==
  /\ endReason = "noplayer"
  /\ fetches < MaxFetch
  /\ stdin # <<>>

(* C5 as stated: while Playing, every line read that is not a quit keyword
   is treated as skip. *)
C5_AnyNonQuitSkips ==
  [][(ReadStep /\ KeyNow \notin QuitKeys) => pc' = "endkill"]_vars

(* C5 amended: while Playing, a line read that is a skip keyword (n, next,
   empty) leaves the wait, the child is stopped and the session goes to
   Fetching; a line that is neither a skip nor a quit keyword is consumed and
   ignored: the session keeps waiting, no child is touched, nothing fetched. *)
C5_SkipKeysSkip ==
  /\ [][(ReadStep /\ KeyNow \notin QuitKeys)
          => IF KeyNow \in SkipKeys
               THEN pc' = "endkill"
               ELSE pc' = "poll" /\ children' = children /\ fetches' = fetches]_vars
  /\ [][(pc = "endkill" /\ pc' = "fetch") => RunningSet' = {}]_vars

C5_Witness ==
  /\ pc = "endkill"
  /\ reads > 0
  /\ Alive(children, process)

(* C6: a quit line read while Playing asks the current child to terminate if
   alive and ends the session with exit code 0, without another fetch. *)
C6_QuitTerminates ==
  [][(ReadStep /\ KeyNow \in QuitKeys)
       => /\ pc' = "done"
          /\ exitCode' = 0
          /\ fetches' = fetches
          /\ Len(children') = Len(children)
          /\ RunningSet' = {}]_vars

C6_Witness ==
  /\ endReason = "quit"
  /\ process # 0
  /\ children[process] = "terminating"

(* C7: while Playing with the child exited on its own, the session leaves
   Playing and reaches the fetch of the next track, unless a quit or an
   interrupt ends it; every request carries the session's selection. *)
C7_NaturalEndRefetches ==
  /\ (Playing /\ ~Alive(children, process))
        ~> (pc = "fetch" \/ endReason \in {"quit", "interrupt"})
  /\ [](lastReq \in {NoReq, Body(sel)})

C7_Witness ==
  /\ pc = "select"
  /\ children[process] = "exited"
  /\ stdin = <<>>
  /\ ~eof

(* C8: a fetch that returns no track ends the session: no retry, no child
   started, no earlier child left running without a terminate request. *)
C8_NoTrackEndsCleanly ==
  /\ [](endReason = "notrack" => (pc = "done" /\ exitCode = 0 /\ RunningSet = {}))
  /\ [][endReason' = "notrack"
          => /\ Len(children') = Len(children)
             /\ (endReason = "notrack" => fetches' = fetches)]_vars

C8_Witness ==
  /\ endReason = "notrack"
  /\ fetches < MaxFetch
  /\ AliveSet # {}

(* C9: when no player could be started the session terminates and the exit
   code is 1. *)
C9_NoPlayerExitsOne ==
  endReason = "noplayer" => (pc = "done" /\ exitCode = 1)

(* C10: on every exit other than an interrupt, and whenever a fetch is in
   progress, no started child is alive without a terminate request. *)
C10_ReleasedOnExit ==
  /\ pc = "fetch" => RunningSet = {}
  /\ (pc = "done" /\ endReason # "interrupt") => RunningSet = {}

C10_Witness ==
  /\ pc = "done"
  /\ endReason = "fetcherror"
  /\ AliveSet # {}

(* C12 as stated: resolveDecade fails for "2021" and for "abc". *)
C12_Rejects2021AndAbc ==
  (fin.fn = "decade" /\ fin.text \in {Text_2021, Text_abc} /\ fout # NoOut)
    => fout.kind # "ok"

(* C12 amended: resolveDecade fails for the non-numeric "abc" (invalid
   decade); for "2021" it does not fail but returns 2020, the year being
   rounded down to its decade before the range check; "2030" is the first
   year after the range that fails (out of range). *)
C12_RejectsAbcAccepts2021 ==
  (fin.fn = "decade" /\ fout # NoOut)
    => /\ fin.text = Text_abc => fout.kind = "invalid"
       /\ fin.text = Text_2021 => fout = [kind |-> "ok", n |-> 2020]
       /\ fin.text = Text_2030 => fout.kind = "out_of_range"

C12_Witness ==
  fin.fn = "decade" /\ fin.text = Text_2021 /\ fout.kind = "ok"

(* C13: the decimal text of n in 0..20 resolves to 2000+n rounded down to a
   multiple of 10, of n in 21..99 to 1900+n rounded down; for every integer
   input a returned value is one of 1900, 1910, ..., 2020 and otherwise the
   failure is "out of range". *)
C13_DecadeShorthand ==
  (fin.fn = "decade" /\ fout # NoOut)
    => /\ \A n \in 0..20 : fin.text = IntToStr(n)
            => fout = [kind |-> "ok", n |-> 2000 + n - ((2000 + n) % 10)]
       /\ \A n \in 21..99 : fin.text = IntToStr(n)
            => fout = [kind |-> "ok", n |-> 1900 + n - ((1900 + n) % 10)]
       /\ \A n \in DecadeInts : fin.text = IntToStr(n)
            => /\ fout.kind \in {"ok", "out_of_range"}
               /\ fout.kind = "ok"
                    => fout.n \in {1900, 1910, 1920, 1930, 1940, 1950, 1960,
                                   1970, 1980, 1990, 2000, 2010, 2020}

C13_Witness ==
  fin.fn = "decade" /\ fin.text = <<"2","0">> /\ fout = [kind |-> "ok", n |-> 2020]

(* C14: of the failures of the track request (any status but 200, a body
   that does not parse, no response) exactly one gives None: status 400 with
   an error text containing "No track"; every other one raises. *)
C14_OnlyNoTrackIsNone ==
  (fin.fn = "track" /\ fout # NoOut /\ (fin.resp.status # 200 \/ ~fin.resp.valid))
    => IF /\ fin.resp.status = 400
          /\ fin.resp.valid
          /\ \E i \in 1..Len(fin.resp.error) :
                /\ i + 7 <= Len(fin.resp.error)
                /\ SubSeq(fin.resp.error, i, i + 7) = <<"N","o"," ","t","r","a","c","k">>
         THEN fout = [kind |-> "value", json |-> EmptyJson]
         ELSE fout.kind = "raise"

C14_Witness ==
  /\ fin.fn = "track"
  /\ fin.resp.status = 400
  /\ fin.resp.error = <<"b","a","d">>
  /\ fout.kind = "raise"

(* C16: a query equal (lowercased, trimmed) to a display name or a code gives
   that entry's code, whatever else contains it; otherwise the number of
   distinct codes whose display name, longer than 3, contains the query
   decides: one gives the code, none "unknown", several "ambiguous". *)
C16_ExactThenPartial ==
  (fin.fn = "country" /\ fout # NoOut)
    => LET data == Directories[fin.dir]
           q == Strip(Lower(fin.text))
           exact == {i \in 1..Len(data) :
                       Lower(data[i][2]) = q \/ Lower(data[i][1]) = q}
           partial == {data[i][1] : i \in
                        {j \in 1..Len(data) :
                           Len(data[j][2]) > 3 /\ Contains(Lower(data[j][2]), q)}}
       IN IF exact # {}
            THEN fout.kind = "code" /\ \E i \in exact : fout.code = data[i][1]
          ELSE IF Cardinality(partial) = 1
            THEN fout.kind = "code" /\ fout.code \in partial
          ELSE IF Cardinality(partial) = 0
            THEN fout.kind = "unknown"
          ELSE fout.kind = "ambiguous" /\ fout.listed = partial

C16_Witness ==
  /\ fin.fn = "country"
  /\ fin.dir = 2
  /\ fin.text = <<"n","i","g","e","r">>
  /\ fout.kind = "code"
  /\ fout.code = <<"N","E","R">>

(* C11: single-shot mode issues exactly one track fetch: once its child has
   exited or was stopped by an interrupt, or the fetch gave no track, or no
   player could be started, no further fetch or child start occurs. *)
C11_SingleShotOneFetch ==
  /\ [](one => (fetches <= 1 /\ Len(children) <= 1))
  /\ []((one /\ endReason \in {"ended", "interrupt", "notrack", "noplayer"})
          => (pc = "done" /\ fetches = 1))
  /\ [][(one /\ fetches = 1)
          => (fetches' = 1 /\ Len(children') <= 1)]_vars

C11_Witness ==
  one /\ endReason = "ended" /\ fetches = 1 /\ children = <<"exited">>

ResolutionErrors == {"unknown", "ambiguous", "multiple_countries"}

(* C15 as stated: a resolution error (unknown or ambiguous country, invalid
   or out-of-range decade) aborts with exit code 1 before any network call,
   and no fetch or child start follows. *)
C15_AbortBeforeNetwork ==
  (endReason \in ResolutionErrors \/ Logged("decade_error") # {})
    => /\ pc = "done"
       /\ exitCode = 1
       /\ Logged("net_countries") = {}
       /\ fetches = 0
       /\ children = <<>>

(* C15 amended: when a token fails country resolution (unknown country,
   ambiguous country, a second country token) the command is aborted with
   exit code 1 and no track fetch or child start has happened or follows; the
   country table may have been fetched over the network before the abort. An
   out-of-range decade is reported without aborting: its token goes on to
   country resolution and no fetch has happened when it is reported. *)
C15_AbortBeforeFetch ==
  /\ [](endReason \in ResolutionErrors
          => (pc = "done" /\ exitCode = 1 /\ fetches = 0 /\ children = <<>>))
  /\ [][(endReason \in ResolutionErrors)
          => (fetches' = fetches /\ children' = children)]_vars
  /\ [][Len(log') > Len(log) => (fetches = 0 /\ children = <<>>)]_vars

C15_Witness ==
  /\ endReason = "unknown"
  /\ Logged("net_countries") # {}
  /\ sel.decades # <<>>

(* C18: a token of integer form is only ever a decade: out of range it aborts
   with the out-of-range error and is never passed to country resolution. *)
C18_IntegerTokenIsDecade ==
  /\ \A i \in Logged("country_call") : ~IntegerForm(log[i].tok)
  /\ Logged("decade_error") # {} => (pc = "done" /\ exitCode = 1)

(* C17: at a poll with the child already exited and a line pending, the exit
   is handled first: the session goes on towards the next fetch and the line
   is not read at that tick; the wait for input is entered only from a poll
   that found the current child alive, so a pending quit is read only once a
   new child has been started. *)
C17_ExitBeforeInput ==
  /\ [][(/\ pc = "poll" /\ ~Alive(children, process) /\ stdin # <<>>
         /\ pc' # "poll" /\ endReason' # "interrupt")
          => (pc' = "endkill" /\ stdin' = stdin /\ reads' = reads)]_vars
  /\ [][(pc' = "select" /\ pc # "select")
          => (pc = "poll" /\ Alive(children, process))]_vars
  /\ [][(pc = "endkill" /\ pc' # "endkill" /\ endReason' # "interrupt")
          => (pc' = "fetch" /\ reads' = reads)]_vars

C17_Witness ==
  /\ pc = "endkill"
  /\ ~Alive(children, process)
  /\ stdin # <<>>
  /\ KeyNow \in QuitKeys
  /\ reads = 0

QuitPending == \E i \in 1..Len(stdin) : Lower(Strip(stdin[i])) \in QuitKeys

(* C19: once a quit line has been entered the session eventually reaches
   Terminated, whatever the timing of the child exits. *)
C19_QuitEventuallyTerminates == QuitPending ~> (pc = "done")

(* C20: a readline that meets end of file while Playing takes the cleanup
   path: child asked to terminate, exit code 0, not a skip. *)
C20_EofCleansUp ==
  [][(ReadStep /\ stdin = <<>> /\ eof)
       => (pc' = "done" /\ exitCode' = 0 /\ RunningSet' = {})]_vars
====
